---------------------------- MODULE Spec2Model ----------------------------
(***************************************************************************)
(* A model of osmpbf.py, the OSM PBF reader: the varint / tag-value        *)
(* reader, the packed and delta decoders, the block framing generator      *)
(* pbf_read, the data block / dense node decoder, and the consuming loop   *)
(* of main.                                                                *)
(*                                                                         *)
(* A byte string is a sequence of naturals in 0..255.  A file object is a  *)
(* pair (data, pos): pos is the 1-based index of the next byte read.  A    *)
(* function that can raise returns a record whose field ok is FALSE when   *)
(* it raised.                                                              *)
(***************************************************************************)
EXTENDS Integers, Sequences, FiniteSets, TLC

VARIABLES
    call,     \* the decoding call made last: its function and arguments
    ret,      \* what that call returned (ok = FALSE: it raised)
    stream,   \* the bytes of the file main opened
    pos,      \* the file's read position: bytes of stream read so far
    gen,      \* pbf_read's generator: "ready", "yielded", "done", "error"
    items,    \* the items pbf_read has yielded so far, in order
    mpc,      \* main: "pull", "item", "nodes", "done", "returned", "error"
    nodes,    \* main: the nodes of the current block not yet enumerated
    nodesErr, \* main: enumerating past the last of nodes raises
    count,    \* main: matches so far
    limit,    \* main: args.limit (NoLimit: None)
    layout    \* the frames written to stream: of each, its kind and its end

vars == <<call, ret, stream, pos, gen, items, mpc, nodes, nodesErr, count,
          limit, layout>>

callVars == <<call, ret>>
fileVars == <<stream, pos, gen, items, mpc, nodes, nodesErr, count, limit, layout>>

-----------------------------------------------------------------------------
(* Bounds of the model.                                                    *)

MaxBufLen == 4
MaxAbs == 70
MaxNodes == 2
MaxTagLen == 4
MaxPairs == 1
MaxFrames == 2
MaxCutFrames == 1
MaxLimit == 2

-----------------------------------------------------------------------------
(* Helpers on sequences and integers.                                      *)

Min(a, b) == IF a < b THEN a ELSE b

RECURSIVE Pow2(_)
Pow2(n) == IF n = 0 THEN 1 ELSE 2 * Pow2(n - 1)

BoundedSeqs(S, n) == UNION {[1..k -> S] : k \in 0..n}

\* file.read(n) of io.BytesIO / a buffered file: the next n bytes, or all
\* that remain when fewer than n do.
Read(data, p, n) == SubSeq(data, p, Min(p + n - 1, Len(data)))

Err == [ok |-> FALSE]

\* Raised with the file's cursor at p.
ErrAt(p) == [ok |-> FALSE, pos |-> p]

\* K with its parameter bound to e: `r = e`, then K's body.
With(e, K(_)) == K(e)

-----------------------------------------------------------------------------
(* Varint codec.                                                           *)

RECURSIVE VarintLoop(_, _, _, _, _)
VarintLoop(data, p, r, i, l) ==
    IF Read(data, p, 1) = <<>> THEN ErrAt(p)
    ELSE With(r + (data[p] % 128) * Pow2(i), LAMBDA r2 :
         IF data[p] >= 128
         THEN VarintLoop(data, p + 1, r2, i + 7, l + 1)
         ELSE [ok |-> TRUE, v |-> r2, l |-> l + 1, pos |-> p + 1])

pbuf_read_varint(data, p) == VarintLoop(data, p, 0, 0, 0)

pbuf_read_varsint(data, p) ==
    With(pbuf_read_varint(data, p), LAMBDA r :
    IF ~r.ok THEN r
    ELSE [ok |-> TRUE,
          v |-> IF r.v % 2 = 1 THEN -(r.v \div 2) ELSE r.v \div 2,
          l |-> r.l, pos |-> r.pos])

-----------------------------------------------------------------------------
(* Tag-value reader.  A value is an int or a byte string.                  *)

IntVal(i) == [kind |-> "int", i |-> i, s |-> <<>>]
BytesVal(s) == [kind |-> "bytes", i |-> 0, s |-> s]
NoneVal == [kind |-> "none", i |-> 0, s |-> <<>>]

\* The loop of pbuf_read_str: s is the chunk read last, val what was read.
RECURSIVE StrLoop(_, _, _, _, _)
StrLoop(data, p, n, val, s) ==
    IF n > 0
    THEN With(Read(data, p, n), LAMBDA s2 :
         IF s2 = <<>> THEN [s |-> s2, val |-> val, pos |-> p]
         ELSE StrLoop(data, p + Len(s2), n - Len(s2), val \o s2, s2))
    ELSE [s |-> s, val |-> val, pos |-> p]

pbuf_read_str(data, p) ==
    With(pbuf_read_varint(data, p), LAMBDA r :
    IF ~r.ok THEN r
    ELSE IF r.v = 0
    THEN [ok |-> TRUE, s |-> <<>>, l |-> r.l, pos |-> r.pos]
    ELSE With(StrLoop(data, r.pos, r.v, <<>>, <<>>), LAMBDA w :
         [ok |-> TRUE, s |-> w.s, l |-> Len(w.val) + r.l, pos |-> w.pos]))

pbuf_read_tag(data, p) ==
    With(pbuf_read_varint(data, p), LAMBDA r :
    IF ~r.ok THEN r
    ELSE [ok |-> TRUE, f |-> r.v \div 8, t |-> r.v % 8, l |-> r.l,
          pos |-> r.pos])

\* case 0 of pbuf_read_tagval, after the tag g.
TagvalVarint(data, g) ==
    With(pbuf_read_varint(data, g.pos), LAMBDA r :
    IF ~r.ok THEN r
    ELSE [ok |-> TRUE, f |-> g.f, v |-> IntVal(r.v), l |-> g.l + r.l,
          pos |-> r.pos])

\* case 2 of pbuf_read_tagval, after the tag g.
TagvalStr(data, g) ==
    With(pbuf_read_str(data, g.pos), LAMBDA r :
    IF ~r.ok THEN r
    ELSE [ok |-> TRUE, f |-> g.f, v |-> BytesVal(r.s), l |-> g.l + r.l,
          pos |-> r.pos])

pbuf_read_tagval(data, p) ==
    With(pbuf_read_tag(data, p), LAMBDA g :
    IF ~g.ok THEN g
    ELSE IF g.t = 0 THEN TagvalVarint(data, g)
    ELSE IF g.t = 2 THEN TagvalStr(data, g)
    ELSE ErrAt(g.pos))

\* pbuf_parse_tagvals is a generator: vals are the pairs it yields before it
\* ends (ok) or raises (~ok).
RECURSIVE TagvalsLoop(_, _, _, _)
TagvalsLoop(data, p, size, vals) ==
    IF size > 0
    THEN With(pbuf_read_tagval(data, p), LAMBDA r :
         IF ~r.ok THEN [ok |-> FALSE, vals |-> vals]
         ELSE TagvalsLoop(data, r.pos, size - r.l,
                          Append(vals, [t |-> r.f, v |-> r.v])))
    ELSE [ok |-> (size = 0), vals |-> vals]

pbuf_parse_tagvals(data) == TagvalsLoop(data, 1, Len(data), <<>>)

-----------------------------------------------------------------------------
(* Packed and delta decoders.                                              *)

RECURSIVE PackedLoop(_, _, _, _)
PackedLoop(data, p, size, vals) ==
    IF size > 0
    THEN With(pbuf_read_varint(data, p), LAMBDA r :
         IF ~r.ok THEN Err
         ELSE PackedLoop(data, r.pos, size - r.l, Append(vals, r.v)))
    ELSE IF size = 0 THEN [ok |-> TRUE, vals |-> vals] ELSE Err

pbuf_parse_packed(data) == PackedLoop(data, 1, Len(data), <<>>)

\* The loop body without the sum: the delta itself is appended.
DeltaStepNoSum(v, d) == d

\* One pass of the while loop of pbuf_parse_packed_deltas: the accumulator
\* after the delta d is read with the accumulator at v.
DeltaStep(v, d) == v + d

RECURSIVE DeltasLoop(_, _, _, _, _)
DeltasLoop(data, p, size, v, vals) ==
    IF size > 0
    THEN With(pbuf_read_varsint(data, p), LAMBDA r :
         IF ~r.ok THEN Err
         ELSE With(DeltaStep(v, r.v), LAMBDA v2 :
              DeltasLoop(data, r.pos, size - r.l, v2, Append(vals, v2))))
    ELSE IF size = 0 THEN [ok |-> TRUE, vals |-> vals] ELSE Err

pbuf_parse_packed_deltas(data) ==
    IF Len(data) = 0 THEN [ok |-> TRUE, vals |-> <<>>]
    ELSE With(pbuf_read_varsint(data, 1), LAMBDA r :
         IF ~r.ok THEN Err
         ELSE DeltasLoop(data, r.pos, Len(data) - r.l, r.v, <<r.v>>))

-----------------------------------------------------------------------------
(* bytes.decode(): strict UTF-8.  A str is the sequence of its code        *)
(* points.                                                                 *)

IsCont(b) == b >= 128 /\ b <= 191

\* The k bytes after s[p] are continuation bytes.
HasCont(s, p, k) == p + k <= Len(s) /\ \A j \in 1..k : IsCont(s[p + j])

RECURSIVE Utf8Loop(_, _, _)
Utf8Loop(s, p, cps) ==
    IF p > Len(s) THEN [ok |-> TRUE, cps |-> cps]
    ELSE With(s[p], LAMBDA b :
         IF b < 128 THEN Utf8Loop(s, p + 1, Append(cps, b))
         ELSE IF b >= 194 /\ b <= 223 /\ HasCont(s, p, 1)
         THEN Utf8Loop(s, p + 2,
                       Append(cps, (b - 192) * 64 + (s[p + 1] - 128)))
         ELSE IF b >= 224 /\ b <= 239 /\ HasCont(s, p, 2)
                 /\ (b = 224 => s[p + 1] >= 160)
                 /\ (b = 237 => s[p + 1] <= 159)
         THEN Utf8Loop(s, p + 3,
                       Append(cps, (b - 224) * 4096 + (s[p + 1] - 128) * 64
                                   + (s[p + 2] - 128)))
         ELSE IF b >= 240 /\ b <= 244 /\ HasCont(s, p, 3)
                 /\ (b = 240 => s[p + 1] >= 144)
                 /\ (b = 244 => s[p + 1] <= 143)
         THEN Utf8Loop(s, p + 4,
                       Append(cps, (b - 240) * 262144
                                   + (s[p + 1] - 128) * 4096
                                   + (s[p + 2] - 128) * 64
                                   + (s[p + 3] - 128)))
         ELSE Err)

Decode(s) == Utf8Loop(s, 1, <<>>)

-----------------------------------------------------------------------------
(* Data block decoder.  names is None or a list of str.                    *)

NoNames == [none |-> TRUE, list |-> <<>>]
Names(l) == [none |-> FALSE, list |-> l]

RECURSIVE StringtableLoop(_, _, _)
StringtableLoop(vals, j, names) ==
    IF j > Len(vals) THEN [ok |-> TRUE, names |-> names]
    ELSE IF vals[j].t = 1 /\ vals[j].v.kind = "bytes"
    THEN With(Decode(vals[j].v.s), LAMBDA d :
         IF ~d.ok THEN Err
         ELSE StringtableLoop(vals, j + 1, Append(names, d.cps)))
    ELSE Err

\* data is a value: an int where the field was a varint.
osm_read_stringtable(data) ==
    IF data.kind # "bytes" THEN Err
    ELSE With(pbuf_parse_tagvals(data.s), LAMBDA tv :
         With(StringtableLoop(tv.vals, 1, <<>>), LAMBDA r :
         IF r.ok /\ tv.ok THEN r ELSE Err))

\* names[i] of the tag loop, under the 1-based reading of the index.
NameAtOneBased(names, i) ==
    IF names.none \/ i < 1 \/ i > Len(names.list) THEN Err
    ELSE [ok |-> TRUE, s |-> names.list[i]]

\* names[i]: Python's list index, counted from 0.
NameAt(names, i) ==
    IF names.none \/ i >= Len(names.list) THEN Err
    ELSE [ok |-> TRUE, s |-> names.list[i + 1]]

\* The else branch of the tag loop: the key packed[j], then next(gs).
TagPair(packed, j, names) ==
    With(NameAt(names, packed[j]), LAMBDA k :
    IF ~k.ok \/ j + 1 > Len(packed) THEN Err
    ELSE With(NameAt(names, packed[j + 1]), LAMBDA v :
         IF ~v.ok THEN Err ELSE [ok |-> TRUE, kv |-> <<k.s, v.s>>]))

\* The loop `for i in gs` over the packed tag array: j is the position of
\* the iterator gs, node the list being filled, kvs the lists closed.
RECURSIVE TagsLoop(_, _, _, _, _)
TagsLoop(packed, j, names, kvs, node) ==
    IF j > Len(packed) THEN [ok |-> TRUE, kvs |-> kvs]
    ELSE IF packed[j] = 0
    THEN TagsLoop(packed, j + 1, names, Append(kvs, node), <<>>)
    ELSE With(TagPair(packed, j, names), LAMBDA kv :
         IF ~kv.ok THEN Err
         ELSE TagsLoop(packed, j + 2, names, kvs, Append(node, kv.kv)))

\* The two-pass reading: close a list at every 0, pair what lies between.
RECURSIVE SplitLoop(_, _, _, _, _)
SplitLoop(packed, j, names, kvs, node) ==
    IF j > Len(packed) THEN [ok |-> TRUE, kvs |-> kvs]
    ELSE IF packed[j] = 0
    THEN SplitLoop(packed, j + 1, names, Append(kvs, node), <<>>)
    ELSE IF j + 1 > Len(packed) \/ packed[j + 1] = 0
    THEN SplitLoop(packed, j + 1, names, kvs, node)
    ELSE With(TagPair(packed, j, names), LAMBDA kv :
         IF ~kv.ok THEN Err
         ELSE SplitLoop(packed, j + 2, names, kvs, Append(node, kv.kv)))

DenseTagsSplitFirst(packed, names) == SplitLoop(packed, 1, names, <<>>, <<>>)

\* Lines 208 to 219: the tag lists kvs of the packed array.
DenseTags(packed, names) == TagsLoop(packed, 1, names, <<>>, <<>>)

\* A local of osm_read_dense_nodes: unbound until its field is met.
Unbound == [set |-> FALSE, vals |-> <<>>]
Bound(vals) == [set |-> TRUE, vals |-> vals]

Record(id, lat, lon, tags) ==
    [kind |-> "dense", id |-> id, lat |-> lat, lon |-> lon, tags |-> tags,
     fields |-> <<>>]

\* list(zip(ids, lats, lons, kvs)), cut to n records.
Zip(ids, lats, lons, kvs, n) ==
    [j \in 1..n |-> Record(ids.vals[j], lats.vals[j], lons.vals[j], kvs.vals[j])]

\* zip without the assert before it: as long as the shortest list.
DenseZipNoAssert(ids, lats, lons, kvs) ==
    IF ~(ids.set /\ lats.set /\ lons.set /\ kvs.set) THEN Err
    ELSE [ok |-> TRUE,
          recs |-> Zip(ids, lats, lons, kvs,
                       Min(Min(Len(ids.vals), Len(lats.vals)),
                           Min(Len(lons.vals), Len(kvs.vals))))]

\* assert len(ids) == len(lats) == len(lons) == len(kvs); list(zip(...)).
\* A name never bound raises at the assert.
DenseZip(ids, lats, lons, kvs) ==
    IF ~(ids.set /\ lats.set /\ lons.set /\ kvs.set) THEN Err
    ELSE IF ~(Len(ids.vals) = Len(lats.vals) /\ Len(lats.vals) = Len(lons.vals)
              /\ Len(lons.vals) = Len(kvs.vals)) THEN Err
    ELSE [ok |-> TRUE, recs |-> Zip(ids, lats, lons, kvs, Len(ids.vals))]

\* Fields 1, 8, 9: the local of field t bound to the deltas of v.
DenseDeltas(t, v, loc) ==
    IF v.kind # "bytes" THEN [ok |-> FALSE, loc |-> loc]
    ELSE With(pbuf_parse_packed_deltas(v.s), LAMBDA d :
         IF ~d.ok THEN [ok |-> FALSE, loc |-> loc]
         ELSE [ok |-> TRUE,
               loc |-> IF t = 1 THEN [loc EXCEPT !.ids = Bound(d.vals)]
                       ELSE IF t = 8 THEN [loc EXCEPT !.lats = Bound(d.vals)]
                       ELSE [loc EXCEPT !.lons = Bound(d.vals)]])

\* Field 10: kvs bound to the tag lists of v.
DenseKvs(v, names, loc) ==
    IF v.kind # "bytes" THEN [ok |-> FALSE, loc |-> loc]
    ELSE With(pbuf_parse_packed(v.s), LAMBDA q :
         IF ~q.ok THEN [ok |-> FALSE, loc |-> loc]
         ELSE With(DenseTags(q.vals, names), LAMBDA g :
              IF ~g.ok THEN [ok |-> FALSE, loc |-> loc]
              ELSE [ok |-> TRUE, loc |-> [loc EXCEPT !.kvs = Bound(g.kvs)]]))

\* The for loop of osm_read_dense_nodes over the fields of the sub-message;
\* loc holds the locals ids, lats, lons, kvs.
RECURSIVE DenseLoop(_, _, _, _)
DenseLoop(vals, j, names, loc) ==
    IF j > Len(vals) THEN [ok |-> TRUE, loc |-> loc]
    ELSE With(IF vals[j].t \in {1, 8, 9}
              THEN DenseDeltas(vals[j].t, vals[j].v, loc)
              ELSE IF vals[j].t = 10 THEN DenseKvs(vals[j].v, names, loc)
              ELSE [ok |-> TRUE, loc |-> loc], LAMBDA r :
         IF ~r.ok THEN r ELSE DenseLoop(vals, j + 1, names, r.loc))

NoLocals == [ids |-> Unbound, lats |-> Unbound, lons |-> Unbound, kvs |-> Unbound]

\* The end of osm_read_dense_nodes, after the loop r over the fields tv.
DenseReturn(tv, r) ==
    With(DenseZip(r.loc.ids, r.loc.lats, r.loc.lons, r.loc.kvs), LAMBDA z :
    IF r.ok /\ tv.ok /\ z.ok
    THEN [ok |-> TRUE, recs |-> z.recs, loc |-> r.loc]
    ELSE [ok |-> FALSE, recs |-> <<>>, loc |-> r.loc])

\* Returns the records, with the locals as they stood when it returned or
\* raised.
osm_read_dense_nodes(data, names) ==
    IF data.kind # "bytes" THEN [ok |-> FALSE, recs |-> <<>>, loc |-> NoLocals]
    ELSE With(pbuf_parse_tagvals(data.s), LAMBDA tv :
         DenseReturn(tv, DenseLoop(tv.vals, 1, names, NoLocals)))

osm_read_node(data, names) ==
    IF data.kind # "bytes" THEN Err
    ELSE With(pbuf_parse_tagvals(data.s), LAMBDA tv :
         IF ~tv.ok THEN Err
         ELSE [ok |-> TRUE,
               node |-> [kind |-> "node", id |-> 0, lat |-> 0, lon |-> 0,
                         tags |-> <<>>, fields |-> tv.vals]])

\* One field of a group: the records it adds to vals.
GroupField(f, names) ==
    IF f.t = 1
    THEN With(osm_read_node(f.v, names), LAMBDA n :
         IF ~n.ok THEN Err ELSE [ok |-> TRUE, add |-> <<n.node>>])
    ELSE IF f.t = 2
    THEN With(osm_read_dense_nodes(f.v, names), LAMBDA d :
         IF ~d.ok THEN Err ELSE [ok |-> TRUE, add |-> d.recs])
    ELSE [ok |-> TRUE, add |-> <<>>]

RECURSIVE GroupLoop(_, _, _, _)
GroupLoop(vals, j, names, out) ==
    IF j > Len(vals) THEN [ok |-> TRUE, vals |-> out]
    ELSE With(GroupField(vals[j], names), LAMBDA r :
         IF ~r.ok THEN Err ELSE GroupLoop(vals, j + 1, names, out \o r.add))

osm_read_group(data, names) ==
    IF data.kind # "bytes" THEN Err
    ELSE With(pbuf_parse_tagvals(data.s), LAMBDA tv :
         With(GroupLoop(tv.vals, 1, names, <<>>), LAMBDA r :
         IF r.ok /\ tv.ok THEN r ELSE Err))

\* One field of a data block: the string table after it, and the group it
\* yields.
DataBlockField(f, names) ==
    IF f.t = 2
    THEN With(osm_read_group(f.v, names), LAMBDA g :
         IF ~g.ok THEN Err
         ELSE [ok |-> TRUE, names |-> names, yield |-> <<g.vals>>])
    ELSE IF f.t = 1
    THEN With(osm_read_stringtable(f.v), LAMBDA s :
         IF ~s.ok THEN Err
         ELSE [ok |-> TRUE, names |-> Names(s.names), yield |-> <<>>])
    ELSE [ok |-> TRUE, names |-> names, yield |-> <<>>]

\* osm_read_data_block is a generator: groups are the lists it yields (each
\* with t = 2) before it ends (ok) or raises (~ok).
RECURSIVE DataBlockLoop(_, _, _, _)
DataBlockLoop(vals, j, names, groups) ==
    IF j > Len(vals) THEN [ok |-> TRUE, groups |-> groups]
    ELSE With(DataBlockField(vals[j], names), LAMBDA r :
         IF ~r.ok THEN [ok |-> FALSE, groups |-> groups]
         ELSE DataBlockLoop(vals, j + 1, r.names, groups \o r.yield))

osm_read_data_block(data) ==
    With(pbuf_parse_tagvals(data), LAMBDA tv :
    With(DataBlockLoop(tv.vals, 1, NoNames, <<>>), LAMBDA r :
    [ok |-> r.ok /\ tv.ok, groups |-> r.groups]))

RECURSIVE Flatten(_)
Flatten(ss) == IF ss = <<>> THEN <<>> ELSE Head(ss) \o Flatten(Tail(ss))

\* osm_enumerate_nodes: the nodes it yields before it ends or raises.
osm_enumerate_nodes(data) ==
    With(osm_read_data_block(data), LAMBDA r :
    [ok |-> r.ok, nodes |-> Flatten(r.groups)])

-----------------------------------------------------------------------------
(* Block framing layer: pbf_read.                                          *)

RECURSIVE ByteSum(_)
ByteSum(s) == IF s = <<>> THEN 0 ELSE Head(s) + ByteSum(Tail(s))

\* The check byte of the stored form below.
Check(s) == (1 + ByteSum(s)) % 251

\* The first byte of a zlib stream.
ZlibMarker == 120

\* zlib.decompress, on zlib's stored form reduced to its frame: the marker
\* byte, the bytes as they are, and one check byte over them (zlib.error
\* when the marker or the check byte is wrong).
zlib_decompress(z) ==
    IF Len(z) < 2 \/ z[1] # ZlibMarker THEN Err
    ELSE IF z[Len(z)] # Check(SubSeq(z, 2, Len(z) - 1)) THEN Err
    ELSE [ok |-> TRUE, v |-> SubSeq(z, 2, Len(z) - 1)]

\* dict(vals).get(k, dflt): the value of the last pair with key k.
RECURSIVE DictGet(_, _, _)
DictGet(m, k, dflt) ==
    IF m = <<>> THEN dflt
    ELSE IF m[Len(m)].t = k THEN m[Len(m)].v
    ELSE DictGet(SubSeq(m, 1, Len(m) - 1), k, dflt)

\* bool(v) of a value.
Truthy(v) == (v.kind = "int" /\ v.i # 0) \/ (v.kind = "bytes" /\ v.s # <<>>)

RECURSIVE MessageLoop(_, _, _, _)
MessageLoop(data, p, size, vals) ==
    IF size > 0
    THEN With(pbuf_read_tagval(data, p), LAMBDA r :
         IF ~r.ok THEN r
         ELSE MessageLoop(data, r.pos, size - r.l,
                          Append(vals, [t |-> r.f, v |-> r.v])))
    ELSE IF size = 0 THEN [ok |-> TRUE, m |-> vals, pos |-> p] ELSE ErrAt(p)

\* m is the dict, as the pairs it was made of.
read_message(data, p, size) == MessageLoop(data, p, size, <<>>)

\* struct.unpack('>I', s) of four bytes.
UnpackBE(s) == ((s[1] * 256 + s[2]) * 256 + s[3]) * 256 + s[4]

\* The header message that follows the length prefix s read at p.
HeaderMessage(data, p, s) ==
    With(read_message(data, p + 4, UnpackBE(s)), LAMBDA r :
    IF ~r.ok THEN r
    ELSE [ok |-> TRUE, none |-> FALSE, m |-> r.m, pos |-> r.pos])

\* read_header that takes a short prefix for the end of the file.
read_header_short_is_eof(data, p) ==
    With(Read(data, p, 4), LAMBDA s :
    IF Len(s) < 4
    THEN [ok |-> TRUE, none |-> TRUE, m |-> <<>>, pos |-> p + Len(s)]
    ELSE HeaderMessage(data, p, s))

\* none: it returned None.  A prefix of 1 to 3 bytes raises struct.error.
read_header(data, p) ==
    With(Read(data, p, 4), LAMBDA s :
    IF s = <<>> THEN [ok |-> TRUE, none |-> TRUE, m |-> <<>>, pos |-> p]
    ELSE IF Len(s) # 4 THEN ErrAt(p + Len(s))
    ELSE HeaderMessage(data, p, s))

\* What pbf_read yields: t the type label; the second component is the dict
\* m (kind "dict") or the byte string v (kind "bytes").
DictItem(t, m) == [t |-> t, kind |-> "dict", m |-> m, v |-> <<>>]
BytesItem(t, v) == [t |-> t, kind |-> "bytes", m |-> <<>>, v |-> v]
NoItem == DictItem(NoneVal, <<>>)

Yield(item, p) == [kind |-> "yield", item |-> item, pos |-> p]
Raise(p) == [kind |-> "error", item |-> NoItem, pos |-> p]
Return(p) == [kind |-> "done", item |-> NoItem, pos |-> p]

\* Lines 136 to 143: the body b has no field 1; n2 is its field 2 and v its
\* field 3.
PbfCompressed(t, b, n2, v) ==
    IF ~Truthy(v) \/ v.kind # "bytes" THEN Raise(b.pos)
    ELSE With(zlib_decompress(v.s), LAMBDA z :
         IF ~z.ok THEN Raise(b.pos)
         ELSE IF n2 # IntVal(Len(z.v)) THEN Raise(b.pos)
         ELSE Yield(BytesItem(t, z.v), b.pos))

\* Lines 133 to 143, after the body message b is read.
PbfPayload(t, b) ==
    IF ~b.ok THEN Raise(b.pos)
    ELSE IF Truthy(DictGet(b.m, 1, NoneVal)) THEN Yield(DictItem(t, b.m), b.pos)
    ELSE PbfCompressed(t, b, DictGet(b.m, 2, IntVal(0)),
                       DictGet(b.m, 3, NoneVal))

\* Lines 130 to 132, after the header h: n is h.get(3, 0).
PbfBody(data, h, n) ==
    IF n.kind # "int" THEN Raise(h.pos)
    ELSE PbfPayload(DictGet(h.m, 1, NoneVal), read_message(data, h.pos, n.i))

\* One pass of `while True` with the header h read.
PbfPass(data, h) ==
    IF ~h.ok THEN Raise(h.pos)
    ELSE IF h.none \/ h.m = <<>> THEN Return(h.pos)
    ELSE PbfBody(data, h, DictGet(h.m, 3, IntVal(0)))

\* A pass that looks for the next length prefix before it yields.
Prefetched(data, y) ==
    IF y.kind = "yield"
    THEN Yield(y.item, y.pos + Len(Read(data, y.pos, 4)))
    ELSE y

PbfStepPrefetch(data, p) == Prefetched(data, PbfPass(data, read_header(data, p)))

\* One pass of `while True` with the file's cursor at p: up to the yield,
\* the break or the exception; pos is the cursor after it.
PbfStep(data, p) == PbfPass(data, read_header(data, p))

-----------------------------------------------------------------------------
(* Header block decoder.                                                   *)

\* One field of a header block: field 1 is a sub-message.
HeaderBlockField(r) ==
    IF r.f # 1 THEN [ok |-> TRUE, val |-> [t |-> r.f, sub |-> <<>>, v |-> r.v]]
    ELSE IF r.v.kind # "bytes" THEN Err
    ELSE With(pbuf_parse_tagvals(r.v.s), LAMBDA sub :
         IF ~sub.ok THEN Err
         ELSE [ok |-> TRUE, val |-> [t |-> r.f, sub |-> sub.vals, v |-> NoneVal]])

RECURSIVE HeaderBlockLoop(_, _, _, _)
HeaderBlockLoop(data, p, size, vals) ==
    IF size > 0
    THEN With(pbuf_read_tagval(data, p), LAMBDA r :
         IF ~r.ok THEN Err
         ELSE With(HeaderBlockField(r), LAMBDA f :
              IF ~f.ok THEN Err
              ELSE HeaderBlockLoop(data, r.pos, size - r.l, Append(vals, f.val))))
    ELSE [ok |-> TRUE, vals |-> vals]

osm_read_header_block(data) == HeaderBlockLoop(data, 1, Len(data), <<>>)

-----------------------------------------------------------------------------
(* The writer's side of the format, used to build inputs: what a file      *)
(* holds for given values.  The reader above is checked against it.        *)

RECURSIVE EncVarint(_)
EncVarint(n) ==
    IF n < 128 THEN <<n>> ELSE <<128 + (n % 128)>> \o EncVarint(n \div 128)

\* Zig-zag: x >= 0 maps to 2x, x < 0 maps to -2x-1.
ZigZag(x) == IF x >= 0 THEN 2 * x ELSE (-2) * x - 1

EncSigned(x) == EncVarint(ZigZag(x))

EncIntField(f, n) == EncVarint(f * 8) \o EncVarint(n)

EncBytesField(f, s) == EncVarint(f * 8 + 2) \o EncVarint(Len(s)) \o s

EncPacked(ns) == Flatten([j \in 1..Len(ns) |-> EncVarint(ns[j])])

-----------------------------------------------------------------------------
(* The codec called on its own: one of the readers, called once on a       *)
(* buffer.                                                                 *)

CodecBytes == {0, 1, 2, 3, 8, 10, 129}

CodecInputs ==
    BoundedSeqs(CodecBytes, MaxBufLen) \cup {EncSigned(x) : x \in -MaxAbs..MaxAbs}

\* args.limit when -n is not given: None.
NoLimit == -1

NoCall == [fn |-> "none"]
NoRet == [ok |-> TRUE]

FileIdle ==
    /\ stream = <<>>
    /\ pos = 0
    /\ gen = "ready"
    /\ items = <<>>
    /\ mpc = "pull"
    /\ nodes = <<>>
    /\ nodesErr = FALSE
    /\ count = 0
    /\ limit = NoLimit
    /\ layout = <<>>

InitCodec == call = NoCall /\ ret = NoRet /\ FileIdle

CallReadVarsint ==
    /\ call = NoCall
    /\ \E buf \in CodecInputs :
           /\ call' = [fn |-> "pbuf_read_varsint", buf |-> buf]
           /\ ret' = pbuf_read_varsint(buf, 1)
           /\ UNCHANGED fileVars

CallReadTagval ==
    /\ call = NoCall
    /\ \E buf \in CodecInputs :
           /\ call' = [fn |-> "pbuf_read_tagval", buf |-> buf]
           /\ ret' = pbuf_read_tagval(buf, 1)
           /\ UNCHANGED fileVars

CallParsePackedDeltas ==
    /\ call = NoCall
    /\ \E buf \in CodecInputs :
           /\ call' = [fn |-> "pbuf_parse_packed_deltas", buf |-> buf]
           /\ ret' = pbuf_parse_packed_deltas(buf)
           /\ UNCHANGED fileVars

NextCodec == CallReadVarsint \/ CallReadTagval \/ CallParsePackedDeltas

SpecCodec == InitCodec /\ [][NextCodec]_vars

\* C2: for every signed x of the range, reading the varint of ZigZag(x)
\* with pbuf_read_varsint returns x, and consumes the whole encoding.
C2_SignedRoundTrip ==
    \A x \in -MaxAbs..MaxAbs :
        (call.fn = "pbuf_read_varsint" /\ call.buf = EncSigned(x))
            => (ret.ok /\ ret.v = x /\ ret.l = Len(call.buf))

\* The declared length of a wire type 2 field at the head of buf, and the
\* bytes left after the length varint.
LenFieldOf(buf, g) ==
    IF ~g.ok \/ g.t # 2 THEN [is |-> FALSE, n |-> 0, left |-> 0]
    ELSE With(pbuf_read_varint(buf, g.pos), LAMBDA n :
         IF ~n.ok THEN [is |-> FALSE, n |-> 0, left |-> 0]
         ELSE [is |-> TRUE, n |-> n.v, left |-> Len(buf) - (n.pos - 1)])

LenField(buf) == LenFieldOf(buf, pbuf_read_tag(buf, 1))

\* C4: pbuf_read_tagval on a wire type 2 field that declares n > 0 bytes
\* with fewer than n left fails, and returns no value shorter than n.
C4_ShortStringFails ==
    (call.fn = "pbuf_read_tagval" /\ LenField(call.buf).is
     /\ LenField(call.buf).n > 0
     /\ LenField(call.buf).left < LenField(call.buf).n)
        => ~ret.ok

\* The signed varints a buffer holds, each as pbuf_read_varsint decodes it.
RECURSIVE SignedVarintsFrom(_, _, _)
SignedVarintsFrom(buf, p, vals) ==
    IF p > Len(buf) THEN [ok |-> TRUE, vals |-> vals]
    ELSE With(pbuf_read_varsint(buf, p), LAMBDA r :
         IF ~r.ok THEN Err
         ELSE SignedVarintsFrom(buf, r.pos, Append(vals, r.v)))

RECURSIVE SumTo(_, _)
SumTo(s, i) == IF i = 0 THEN 0 ELSE s[i] + SumTo(s, i - 1)

\* C9: pbuf_parse_packed_deltas returns the running sums of the signed
\* varints of the buffer, one per varint, in order; the empty list for the
\* empty buffer.
C9_RunningSums ==
    call.fn = "pbuf_parse_packed_deltas" =>
        With(SignedVarintsFrom(call.buf, 1, <<>>), LAMBDA s :
             s.ok => /\ ret.ok
                     /\ Len(ret.vals) = Len(s.vals)
                     /\ \A i \in 1..Len(s.vals) : ret.vals[i] = SumTo(s.vals, i))

\* Three deltas, the last two not zero, summed.
C9_Witness ==
    /\ call.fn = "pbuf_parse_packed_deltas"
    /\ call.buf = <<8, 3, 129, 1>>
    /\ ret.ok
    /\ ret.vals = <<4, 3, -61>>

-----------------------------------------------------------------------------
(* The data block decoder called on its own, once, on a block, a group or  *)
(* a dense sub-message written from given arrays.                          *)

EncDeltas(ds) == Flatten([j \in 1..Len(ds) |-> EncSigned(ds[j])])

EncDense(ids, lats, lons, tags) ==
    (IF ids.set THEN EncBytesField(1, EncDeltas(ids.vals)) ELSE <<>>)
    \o (IF lats.set THEN EncBytesField(8, EncDeltas(lats.vals)) ELSE <<>>)
    \o (IF lons.set THEN EncBytesField(9, EncDeltas(lons.vals)) ELSE <<>>)
    \o (IF tags.set THEN EncBytesField(10, EncPacked(tags.vals)) ELSE <<>>)

EncGroup(denses) ==
    Flatten([j \in 1..Len(denses) |-> EncBytesField(2, denses[j])])

EncStringTable(table) ==
    Flatten([j \in 1..Len(table) |-> EncBytesField(1, table[j])])

EncDataBlock(table, groups) ==
    EncBytesField(1, EncStringTable(table))
    \o Flatten([j \in 1..Len(groups) |-> EncBytesField(2, groups[j])])

\* A list, or no field at all.
OptArrays(S, n) == {Unbound} \cup {Bound(s) : s \in BoundedSeqs(S, n)}

\* "k", "v", "amenity", "cafe" and "café": as UTF-8 bytes and as str.
StrEmpty == <<>>
StrK == <<107>>
StrV == <<118>>
StrAmenity == <<97, 109, 101, 110, 105, 116, 121>>
StrCafe == <<99, 97, 102, 101>>
BytesCafeAcute == <<99, 97, 102, 195, 169>>
StrCafeAcute == <<99, 97, 102, 233>>

NameTables ==
    {NoNames, Names(<<StrEmpty, StrK, StrV>>), Names(<<StrK, StrV>>)}

CallDenseNodes ==
    /\ call = NoCall
    /\ \E ids \in OptArrays({-1}, MaxNodes),
          lats \in OptArrays({10}, MaxNodes),
          lons \in OptArrays({20}, MaxNodes),
          tags \in OptArrays(0..2, MaxTagLen),
          names \in NameTables :
           /\ call' = [fn |-> "osm_read_dense_nodes", ids |-> ids, lats |-> lats,
                       lons |-> lons, tags |-> tags, names |-> names]
           /\ ret' = osm_read_dense_nodes(
                         BytesVal(EncDense(ids, lats, lons, tags)), names)
           /\ UNCHANGED fileVars

\* The dense sub-message of the sample d = (a, b, c): a ids, a lats, b lons
\* and c empty tag lists.
Zeros(n) == [j \in 1..n |-> 0]
DenseSample(d) ==
    EncDense(Bound([j \in 1..d[1] |-> 1]), Bound(Zeros(d[1])),
             Bound(Zeros(d[2])), Bound(Zeros(d[3])))

DenseSamples == (1..MaxNodes) \X (1..MaxNodes) \X (1..MaxNodes)

CallGroup ==
    /\ call = NoCall
    /\ \E ds \in BoundedSeqs(DenseSamples, 2) :
           /\ call' = [fn |-> "osm_read_group", denses |-> ds]
           /\ ret' = osm_read_group(
                         BytesVal(EncGroup([j \in 1..Len(ds) |->
                                               DenseSample(ds[j])])),
                         NoNames)
           /\ UNCHANGED fileVars

Tables ==
    {[bytes |-> <<StrAmenity, StrCafe>>, strs |-> <<StrAmenity, StrCafe>>],
     [bytes |-> <<StrEmpty, StrAmenity, StrCafe>>,
      strs |-> <<StrEmpty, StrAmenity, StrCafe>>],
     [bytes |-> <<StrEmpty, StrAmenity, BytesCafeAcute>>,
      strs |-> <<StrEmpty, StrAmenity, StrCafeAcute>>]}

\* The flat tag array of per-point lists of (key index, value index).
TagRun(taglists) ==
    Flatten([j \in 1..Len(taglists) |->
                Flatten([k \in 1..Len(taglists[j]) |->
                            <<taglists[j][k][1], taglists[j][k][2]>>])
                \o <<0>>])

\* The block of the scenario: ids [100, +1], lats [10, 0], lons [20, +1].
ScenarioBlock(table, taglists) ==
    EncDataBlock(table.bytes,
        <<EncGroup(<<EncDense(Bound(<<100, 1>>), Bound(<<10, 0>>),
                              Bound(<<20, 1>>), Bound(TagRun(taglists)))>>)>>)

CallDataBlock ==
    /\ call = NoCall
    /\ \E table \in Tables,
          taglists \in [1..2 -> BoundedSeqs((1..2) \X (1..2), MaxPairs)] :
           /\ call' = [fn |-> "osm_read_data_block", table |-> table,
                       taglists |-> taglists]
           /\ ret' = osm_read_data_block(ScenarioBlock(table, taglists))
           /\ UNCHANGED fileVars

NextDense == CallDenseNodes \/ CallGroup \/ CallDataBlock

SpecDense == InitCodec /\ [][NextDense]_vars

-----------------------------------------------------------------------------
(* Claims about the data block decoder.                                    *)

\* The tag lists of the points of a block, each index resolved in the
\* table's strs counted from `first` (0: Python's names[i]; 1: the first
\* entry is entry 1).
Resolved(table, taglist, first) ==
    [k \in 1..Len(taglist) |->
        <<table.strs[taglist[k][1] + 1 - first],
          table.strs[taglist[k][2] + 1 - first]>>]

ScenarioRecords(table, taglists, first) ==
    << <<Record(100, 10, 20, Resolved(table, taglists[1], first)),
         Record(101, 10, 21, Resolved(table, taglists[2], first))>> >>

\* Every index of the tag lists lies in lo..hi.
AllIn(taglists, lo, hi) ==
    \A j \in 1..Len(taglists) : \A k \in 1..Len(taglists[j]) :
        /\ taglists[j][k][1] \in lo..hi
        /\ taglists[j][k][2] \in lo..hi

\* C1 as stated: a non-zero index i of the dense tag array resolves to the
\* i-th string-table entry counted from 1, so the scenario block decodes
\* to its records without an error.
C1_IndexFromOne ==
    (call.fn = "osm_read_data_block"
     /\ AllIn(call.taglists, 1, Len(call.table.strs)))
        => /\ ret.ok
           /\ ret.groups = ScenarioRecords(call.table, call.taglists, 1)

\* C1 as amended: a non-zero index i resolves to names[i], the entry at
\* position i counted from 0; a block whose indices all lie below the
\* table's length decodes to exactly its records, in order, and one with
\* an index at or past the length raises and yields no group.
C1_IndexFromZero ==
    call.fn = "osm_read_data_block" =>
        IF AllIn(call.taglists, 1, Len(call.table.strs) - 1)
        THEN /\ ret.ok
             /\ ret.groups = ScenarioRecords(call.table, call.taglists, 0)
        ELSE ~ret.ok /\ ret.groups = <<>>

\* The scenario with the table ["", "amenity", "cafe"] and tags [1,2,0,0].
C1_Witness ==
    /\ call.fn = "osm_read_data_block"
    /\ call.table.strs = <<StrEmpty, StrAmenity, StrCafe>>
    /\ call.taglists = << << <<1, 2>> >>, <<>> >>
    /\ ret.ok
    /\ ret.groups = << <<Record(100, 10, 20, << <<StrAmenity, StrCafe>> >>),
                         Record(101, 10, 21, <<>>)>> >>

\* The four arrays of a dense call are present and, decoded, equally long.
DensePresent ==
    call.ids.set /\ call.lats.set /\ call.lons.set /\ call.tags.set

DenseSameLen ==
    /\ ret.loc.kvs.set
    /\ Len(call.ids.vals) = Len(call.lats.vals)
    /\ Len(call.lats.vals) = Len(call.lons.vals)
    /\ Len(call.lons.vals) = Len(ret.loc.kvs.vals)

\* A sample (a, b, c) has a ids, a lats, b lons and c tag lists.
SampleGood(d) == d[1] = d[2] /\ d[2] = d[3]

\* C8: osm_read_dense_nodes returns records only when the four arrays are
\* present and equally long, and then one record per entry; otherwise it
\* raises and returns none, and osm_read_group over a group holding such a
\* sub-message raises too and returns no record of the group.
C8_DenseAllOrNothing ==
    /\ call.fn = "osm_read_dense_nodes" =>
           IF DensePresent /\ DenseSameLen
           THEN ret.ok /\ Len(ret.recs) = Len(call.ids.vals)
           ELSE ~ret.ok /\ ret.recs = <<>>
    /\ call.fn = "osm_read_group" =>
           IF \A j \in 1..Len(call.denses) : SampleGood(call.denses[j])
           THEN /\ ret.ok
                /\ Len(ret.vals) = SumTo([j \in 1..Len(call.denses) |->
                                             call.denses[j][1]],
                                         Len(call.denses))
           ELSE ret = Err

\* A group whose first sub-message is sound and whose second is not.
C8_Witness ==
    /\ call.fn = "osm_read_group"
    /\ Len(call.denses) = 2
    /\ SampleGood(call.denses[1])
    /\ ~SampleGood(call.denses[2])
    /\ ~ret.ok

RECURSIVE CountZeros(_)
CountZeros(s) ==
    IF s = <<>> THEN 0
    ELSE (IF Head(s) = 0 THEN 1 ELSE 0) + CountZeros(Tail(s))

\* The 0 elements met in key position: a non-zero element is a key and
\* takes the element after it as its value, 0 or not.
RECURSIVE KeyZeros(_)
KeyZeros(s) ==
    IF s = <<>> THEN 0
    ELSE IF Head(s) = 0 THEN 1 + KeyZeros(Tail(s))
    ELSE IF Len(s) = 1 THEN 0
    ELSE KeyZeros(Tail(Tail(s)))

\* Every key index is followed by a non-zero value index.
RECURSIVE WellPaired(_)
WellPaired(s) ==
    IF s = <<>> THEN TRUE
    ELSE IF Head(s) = 0 THEN WellPaired(Tail(s))
    ELSE Len(s) >= 2 /\ s[2] # 0 /\ WellPaired(Tail(Tail(s)))

\* The tag array of a dense call was decoded into tag lists.
TagsDecoded ==
    call.fn = "osm_read_dense_nodes" /\ call.tags.set /\ ret.loc.kvs.set

\* C10 as stated: the tag array is split on every 0, so there are as many
\* tag lists as 0 elements, also when a 0 directly follows a key index.
C10_ListPerZero ==
    TagsDecoded => Len(ret.loc.kvs.vals) = CountZeros(call.tags.vals)

\* C10 as amended: there are as many tag lists as 0 elements met in key
\* position; a 0 that directly follows a key index is read as that key's
\* value and closes no list.  When every key index is followed by a
\* non-zero value index, that is the number of 0 elements.
C10_ListPerKeyZero ==
    TagsDecoded =>
        /\ Len(ret.loc.kvs.vals) = KeyZeros(call.tags.vals)
        /\ WellPaired(call.tags.vals)
               => Len(ret.loc.kvs.vals) = CountZeros(call.tags.vals)

\* The array [1,0,0] decodes to the one list [("k", "")].
C10_Witness ==
    /\ call.fn = "osm_read_dense_nodes"
    /\ call.tags = Bound(<<1, 0, 0>>)
    /\ ret.ok
    /\ ret.loc.kvs.vals = << << <<StrK, StrEmpty>> >> >>

-----------------------------------------------------------------------------
(* main over a file of frames.                                             *)

\* Four bytes, big-endian, of n < 65536.
PackBE(n) == <<0, 0, n \div 256, n % 256>>

EncFrameOf(h, body) == PackBE(Len(h)) \o h \o body

\* A frame: the prefix, the header (type label, body length), the body.
EncFrame(label, body) ==
    EncFrameOf(EncBytesField(1, label) \o EncIntField(3, Len(body)), body)

\* The stored form zlib_decompress takes.
zlib_compress(s) == <<ZlibMarker>> \o s \o <<Check(s)>>

\* b'OSMHeader' and b'OSMData'.
LabelHeader == <<79, 83, 77, 72, 101, 97, 100, 101, 114>>
LabelData == <<79, 83, 77, 68, 97, 116, 97>>

\* A header block: a bbox sub-message (field 1) and a writing program
\* (field 16).
SampleHeaderBlock ==
    EncBytesField(1, EncIntField(1, 2)) \o EncBytesField(16, StrK)

\* A data block of two points, the first tagged k=v.
SampleDataBlock ==
    EncDataBlock(<<StrEmpty, StrK, StrV>>,
        <<EncGroup(<<EncDense(Bound(<<5, 1>>), Bound(<<10, 0>>),
                              Bound(<<20, 1>>), Bound(<<1, 2, 0, 0>>))>>)>>)

\* A compressed body; with `wide`, field 3 comes first and the raw size is
\* written as a two-byte varint.
EncCompressedBody(raw, wide) ==
    IF wide
    THEN EncBytesField(3, zlib_compress(raw)) \o <<16, 128 + Len(raw), 0>>
    ELSE EncIntField(2, Len(raw)) \o EncBytesField(3, zlib_compress(raw))

FrameKinds == {"hz", "hr", "dz", "dr", "zero"}

\* The payload and the bytes of a frame of each kind: "h" a header block,
\* "d" a data block, "z" compressed, "r" raw (body field 1); "zero" is a
\* length prefix of 0 and nothing else.
FramePayload(kind) ==
    IF kind \in {"hz", "hr"} THEN SampleHeaderBlock
    ELSE IF kind \in {"dz", "dr"} THEN SampleDataBlock
    ELSE <<>>

FrameBytes(kind) ==
    IF kind = "hz"
    THEN EncFrame(LabelHeader, EncCompressedBody(SampleHeaderBlock, TRUE))
    ELSE IF kind = "hr"
    THEN EncFrame(LabelHeader, EncBytesField(1, SampleHeaderBlock))
    ELSE IF kind = "dz"
    THEN EncFrame(LabelData, EncCompressedBody(SampleDataBlock, FALSE))
    ELSE IF kind = "dr"
    THEN EncFrame(LabelData, EncBytesField(1, SampleDataBlock))
    ELSE PackBE(0)

FileBytes(kinds) == Flatten([j \in 1..Len(kinds) |-> FrameBytes(kinds[j])])

Layout(kinds) ==
    [j \in 1..Len(kinds) |->
        [kind |-> kinds[j], end |-> Len(FileBytes(SubSeq(kinds, 1, j)))]]

\* Where a file of these frames may be cut: anywhere when it holds at most
\* MaxCutFrames frames, else only at its end.
Cuts(kinds) ==
    IF Len(kinds) <= MaxCutFrames THEN 0..Len(FileBytes(kinds))
    ELSE {Len(FileBytes(kinds))}

InitFile ==
    /\ call = NoCall
    /\ ret = NoRet
    /\ \E kinds \in BoundedSeqs(FrameKinds, MaxFrames) :
           /\ layout = Layout(kinds)
           /\ \E cut \in Cuts(kinds) :
                  stream = SubSeq(FileBytes(kinds), 1, cut)
    /\ limit \in {NoLimit} \cup (0..MaxLimit)
    /\ pos = 0
    /\ gen = "ready"
    /\ items = <<>>
    /\ mpc = "pull"
    /\ nodes = <<>>
    /\ nodesErr = FALSE
    /\ count = 0

\* The for loop of main asks pbf_read for its next item: the generator runs
\* from where it stood to its next yield, its end or an exception.
PbfResume(r) ==
    /\ pos' = r.pos - 1
    /\ gen' = IF r.kind = "yield" THEN "yielded" ELSE r.kind
    /\ items' = IF r.kind = "yield" THEN Append(items, r.item) ELSE items
    /\ mpc' = IF r.kind = "yield" THEN "item" ELSE r.kind

PbfNext ==
    /\ mpc = "pull"
    /\ gen \in {"ready", "yielded"}
    /\ PbfResume(PbfStep(stream, pos + 1))
    /\ UNCHANGED <<call, ret, stream, nodes, nodesErr, count, limit, layout>>

\* Lines 271 to 275 on the item (h, m): an OSMHeader block is decoded, the
\* nodes of an OSMData block are enumerated, any other item is passed over.
\* io.BytesIO(m) raises when m is a dict.
HandleHeader(item) ==
    /\ mpc' = IF item.kind = "bytes" /\ osm_read_header_block(item.v).ok
              THEN "pull" ELSE "error"
    /\ UNCHANGED <<nodes, nodesErr>>

HandleData(item) ==
    IF item.kind # "bytes"
    THEN mpc' = "error" /\ UNCHANGED <<nodes, nodesErr>>
    ELSE /\ mpc' = "nodes"
         /\ nodes' = osm_enumerate_nodes(item.v).nodes
         /\ nodesErr' = ~osm_enumerate_nodes(item.v).ok

HandleItemOf(item) ==
    IF item.t = BytesVal(LabelHeader) THEN HandleHeader(item)
    ELSE IF item.t = BytesVal(LabelData) THEN HandleData(item)
    ELSE mpc' = "pull" /\ UNCHANGED <<nodes, nodesErr>>

HandleItem ==
    /\ mpc = "item"
    /\ HandleItemOf(items[Len(items)])
    /\ UNCHANGED <<call, ret, stream, pos, gen, items, count, limit, layout>>

\* Lines 275 to 291 for one node; matched is the outcome of _node_match on
\* it under the query given.  A node of the plain kind is a list of fields,
\* on which _node_match raises.
NodeStep(node, matched) ==
    IF node.kind # "dense" THEN mpc' = "error" /\ count' = count
    ELSE /\ count' = IF matched THEN count + 1 ELSE count
         /\ mpc' = IF matched /\ limit # NoLimit /\ count + 1 >= limit
                   THEN "returned" ELSE "nodes"

NextNode ==
    /\ mpc = "nodes"
    /\ IF nodes = <<>>
       THEN /\ mpc' = IF nodesErr THEN "error" ELSE "pull"
            /\ UNCHANGED <<nodes, count>>
       ELSE /\ nodes' = Tail(nodes)
            /\ \E matched \in BOOLEAN : NodeStep(Head(nodes), matched)
    /\ UNCHANGED <<call, ret, stream, pos, gen, items, nodesErr, limit, layout>>

NextFile == PbfNext \/ HandleItem \/ NextNode

SpecFile == InitFile /\ [][NextFile]_vars

-----------------------------------------------------------------------------
(* Claims about pbf_read and main.  Every frame but a "zero" one makes     *)
(* pbf_read yield or raise, so the k-th item comes from the k-th frame.    *)

\* C3: for a frame whose body has field 1, pbf_read yields the bytes of
\* that field as the payload, a byte string as for a compressed body.
C3_RawPayloadYielded ==
    \A k \in 1..Len(items) :
        layout[k].kind \in {"hr", "dr"}
            => /\ items[k].kind = "bytes"
               /\ items[k].v = FramePayload(layout[k].kind)

\* The file is the first N bytes of one well-formed frame, N below its
\* length.
CutFrame ==
    /\ Len(layout) = 1
    /\ layout[1].kind # "zero"
    /\ Len(stream) < layout[1].end

\* C5: over the first N bytes of a frame, 1 <= N < L, pbf_read raises
\* before it yields anything; over N = 0 bytes it ends without an error.
C5_TruncationRaises ==
    CutFrame =>
        /\ items = <<>>
        /\ gen # "ready" => gen = (IF Len(stream) = 0 THEN "done" ELSE "error")

\* A compressed data frame cut one byte short, and pbf_read has raised.
C5_Witness ==
    /\ CutFrame
    /\ layout[1].kind = "dz"
    /\ Len(stream) = layout[1].end - 1
    /\ gen = "error"
    /\ items = <<>>

\* C6: pbf_read ends without an error only at the end of the file: when it
\* has ended, no byte of the file is left unread.
C6_EndsOnlyAtEof == gen = "done" => pos = Len(stream)

\* C7: while main works on the item or the nodes of frame k, and when it
\* returns at the limit, the file has been read up to the end of frame k
\* and no further.
C7_NoReadAhead ==
    mpc \in {"item", "nodes", "returned"}
        => /\ gen = "yielded"
           /\ items # <<>>
           /\ pos = layout[Len(items)].end

\* main returned at the limit within the first of two frames, the second
\* unread.
C7_Witness ==
    /\ mpc = "returned"
    /\ Len(items) = 1
    /\ Len(layout) = 2
    /\ layout[2].kind = "dz"
    /\ Len(stream) = layout[2].end
    /\ pos = layout[1].end

=============================================================================
